---- MODULE Spec2Model ----
(***************************************************************************)
(* Pokemon API (src/main.py): the hydration pipeline, the batch operations *)
(* built on asyncio.gather, and the in-memory team store.                  *)
(*                                                                         *)
(* A Python str is a sequence of one-character strings, so that lower()    *)
(* and replace() are computed character by character.  Python None and the *)
(* optional values are records [some |-> FALSE] / [some |-> TRUE, v |-> x].*)
(***************************************************************************)
EXTENDS Integers, Sequences, FiniteSets, TLC

VARIABLES POKEMON_TEAMS, pending, response, batch, call

vars == <<POKEMON_TEAMS, pending, response, batch, call>>

(***************************************************************************)
(* Bounds of the model.                                                    *)
(***************************************************************************)
MaxInFlight == 2
MaxStore == 7
MaxListLen == 3
MaxRepeat == 7
MaxLimit == 3

(***************************************************************************)
(* Python values.                                                          *)
(***************************************************************************)
None == [some |-> FALSE]

Some(x) == [some |-> TRUE, v |-> x]

LowerLetters == <<"a","b","c","d","e","f","g","h","i","j","k","l","m",
                  "n","o","p","q","r","s","t","u","v","w","x","y","z">>

UpperLetters == <<"A","B","C","D","E","F","G","H","I","J","K","L","M",
                  "N","O","P","Q","R","S","T","U","V","W","X","Y","Z">>

\* the lowercase letter of each uppercase letter
LowerOf == [c \in {UpperLetters[i] : i \in 1..Len(UpperLetters)} |->
               LowerLetters[CHOOSE i \in 1..Len(UpperLetters) : UpperLetters[i] = c]]

\* str.lower() on one character
LowerChar(c) == IF c \in DOMAIN LowerOf THEN LowerOf[c] ELSE c

\* str.lower()
Lower(s) == [i \in 1..Len(s) |-> LowerChar(s[i])]

\* str.replace(old, new) for a one-character old and new
Replace(s, old, new) == [i \in 1..Len(s) |-> IF s[i] = old THEN new ELSE s[i]]

Digits == <<"0","1","2","3","4","5","6","7","8","9">>

RECURSIVE DecStr(_)
\* the decimal text of a non-negative integer, as an f-string formats it
DecStr(n) == IF n < 10 THEN <<Digits[n + 1]>>
             ELSE Append(DecStr(n \div 10), Digits[(n % 10) + 1])

\* a typed value handed to a fetcher: a str or an int
StrVal(s) == [kind |-> "str", s |-> s]

IntVal(n) == [kind |-> "int", n |-> n]

(***************************************************************************)
(* The str literals of the source, character by character.                 *)
(***************************************************************************)
s_pikachu == <<"p","i","k","a","c","h","u">>

s_charizard == <<"c","h","a","r","i","z","a","r","d">>

s_squirtle == <<"s","q","u","i","r","t","l","e">>

s_bulbasaur == <<"b","u","l","b","a","s","a","u","r">>

s_greninja == <<"g","r","e","n","i","n","j","a">>

s_infernape == <<"i","n","f","e","r","n","a","p","e">>

s_sceptile == <<"s","c","e","p","t","i","l","e">>

s_lycanroc == <<"l","y","c","a","n","r","o","c">>

s_dragonite == <<"d","r","a","g","o","n","i","t","e">>

s_gengar == <<"g","e","n","g","a","r">>

s_starmie == <<"s","t","a","r","m","i","e">>

s_staryu == <<"s","t","a","r","y","u">>

s_goldeen == <<"g","o","l","d","e","e","n">>

s_psyduck == <<"p","s","y","d","u","c","k">>

s_togepi == <<"t","o","g","e","p","i">>

s_gyarados == <<"g","y","a","r","a","d","o","s">>

s_onix == <<"o","n","i","x">>

s_geodude == <<"g","e","o","d","u","d","e">>

s_vulpix == <<"v","u","l","p","i","x">>

s_crobat == <<"c","r","o","b","a","t">>

s_sudowoodo == <<"s","u","d","o","w","o","o","d","o">>

s_steelix == <<"s","t","e","e","l","i","x">>

s_blastoise == <<"b","l","a","s","t","o","i","s","e">>

s_umbreon == <<"u","m","b","r","e","o","n">>

s_electivire == <<"e","l","e","c","t","i","v","i","r","e">>

s_arcanine == <<"a","r","c","a","n","i","n","e">>

s_nidoking == <<"n","i","d","o","k","i","n","g">>

s_scizor == <<"s","c","i","z","o","r">>

s_aerodactyl == <<"a","e","r","o","d","a","c","t","y","l">>

s_tyranitar == <<"t","y","r","a","n","i","t","a","r">>

s_garchomp == <<"g","a","r","c","h","o","m","p">>

s_spiritomb == <<"s","p","i","r","i","t","o","m","b">>

s_milotic == <<"m","i","l","o","t","i","c">>

s_roserade == <<"r","o","s","e","r","a","d","e">>

s_togekiss == <<"t","o","g","e","k","i","s","s">>

s_lucario == <<"l","u","c","a","r","i","o">>

s_ash == <<"a","s","h">>

s_misty == <<"m","i","s","t","y">>

s_brock == <<"b","r","o","c","k">>

s_gary == <<"g","a","r","y">>

s_lance == <<"l","a","n","c","e">>

s_cynthia == <<"c","y","n","t","h","i","a">>

s_kanto == <<"k","a","n","t","o">>

s_johto == <<"j","o","h","t","o">>

s_hoenn == <<"h","o","e","n","n">>

s_sinnoh == <<"s","i","n","n","o","h">>

s_unova == <<"u","n","o","v","a">>

s_kalos == <<"k","a","l","o","s">>

s_alola == <<"a","l","o","l","a">>

s_galar == <<"g","a","l","a","r">>

\* str values of requests that are no literal of the source
s_Pikachu == <<"P","i","k","a","c","h","u">>

s_Ash == <<"A","s","h">>

s_Kanto == <<"K","a","n","t","o">>

s_oak == <<"o","a","k">>

\* FAMOUS_TRAINERS: trainer key -> roster
FAMOUS_TRAINERS ==
    (s_ash :> <<s_pikachu, s_charizard, s_squirtle, s_bulbasaur, s_greninja, s_infernape, s_sceptile, s_lycanroc, s_dragonite, s_gengar>>)
    @@ (s_misty :> <<s_starmie, s_staryu, s_goldeen, s_psyduck, s_togepi, s_gyarados>>)
    @@ (s_brock :> <<s_onix, s_geodude, s_vulpix, s_crobat, s_sudowoodo, s_steelix>>)
    @@ (s_gary :> <<s_blastoise, s_umbreon, s_electivire, s_arcanine, s_nidoking, s_scizor>>)
    @@ (s_lance :> <<s_dragonite, s_gyarados, s_aerodactyl, s_charizard, s_tyranitar>>)
    @@ (s_cynthia :> <<s_garchomp, s_spiritomb, s_milotic, s_roserade, s_togekiss, s_lucario>>)

\* POKEMON_REGIONS: region key -> generation tag and pokedex key
POKEMON_REGIONS ==
    (s_kanto :> [generation |-> <<"g","e","n","e","r","a","t","i","o","n","-","i">>,
                    pokedex |-> <<"k","a","n","t","o">>])
    @@ (s_johto :> [generation |-> <<"g","e","n","e","r","a","t","i","o","n","-","i","i">>,
                    pokedex |-> <<"o","r","i","g","i","n","a","l","-","j","o","h","t","o">>])
    @@ (s_hoenn :> [generation |-> <<"g","e","n","e","r","a","t","i","o","n","-","i","i","i">>,
                    pokedex |-> <<"h","o","e","n","n">>])
    @@ (s_sinnoh :> [generation |-> <<"g","e","n","e","r","a","t","i","o","n","-","i","v">>,
                    pokedex |-> <<"o","r","i","g","i","n","a","l","-","s","i","n","n","o","h">>])
    @@ (s_unova :> [generation |-> <<"g","e","n","e","r","a","t","i","o","n","-","v">>,
                    pokedex |-> <<"o","r","i","g","i","n","a","l","-","u","n","o","v","a">>])
    @@ (s_kalos :> [generation |-> <<"g","e","n","e","r","a","t","i","o","n","-","v","i">>,
                    pokedex |-> <<"k","a","l","o","s","-","c","e","n","t","r","a","l">>])
    @@ (s_alola :> [generation |-> <<"g","e","n","e","r","a","t","i","o","n","-","v","i","i">>,
                    pokedex |-> <<"o","r","i","g","i","n","a","l","-","a","l","o","l","a">>])
    @@ (s_galar :> [generation |-> <<"g","e","n","e","r","a","t","i","o","n","-","v","i","i","i">>,
                    pokedex |-> <<"g","a","l","a","r">>])

(***************************************************************************)
(* The upstream provider (PokeAPI), consumed through client.get.  Its      *)
(* payloads are the JSON objects the code reads; the entities it holds are *)
(* a small catalog.  togepi is served with sprites.front_default = null,   *)
(* onix without a speed statistic.                                         *)
(***************************************************************************)
TypeSlot(n) == [type |-> [name |-> n]]

AbilitySlot(n) == [ability |-> [name |-> n]]

StatSlot(n, b) == [stat |-> [name |-> n], base_stat |-> b]

Catalog ==
    { [id |-> 25, name |-> s_pikachu,
       types |-> <<TypeSlot("electric")>>,
       abilities |-> <<AbilitySlot(<<"s","t","a","t","i","c">>),
                       AbilitySlot(<<"l","i","g","h","t","n","i","n","g","-","r","o","d">>)>>,
       stats |-> <<StatSlot("hp", 35), StatSlot("attack", 55), StatSlot("defense", 40),
                   StatSlot("special-attack", 50), StatSlot("special-defense", 50),
                   StatSlot("speed", 90)>>,
       sprites |-> [front_default |-> Some("sprites/pokemon/25.png")],
       height |-> 4, weight |-> 60],
      [id |-> 6, name |-> s_charizard,
       types |-> <<TypeSlot("fire"), TypeSlot("flying")>>,
       abilities |-> <<AbilitySlot(<<"b","l","a","z","e">>),
                       AbilitySlot(<<"s","o","l","a","r","-","p","o","w","e","r">>)>>,
       stats |-> <<StatSlot("hp", 78), StatSlot("attack", 84), StatSlot("defense", 78),
                   StatSlot("special-attack", 109), StatSlot("special-defense", 85),
                   StatSlot("speed", 100)>>,
       sprites |-> [front_default |-> Some("sprites/pokemon/6.png")],
       height |-> 17, weight |-> 905],
      [id |-> 95, name |-> s_onix,
       types |-> <<TypeSlot("rock"), TypeSlot("ground")>>,
       abilities |-> <<AbilitySlot(<<"r","o","c","k","-","h","e","a","d">>),
                       AbilitySlot(<<"s","t","u","r","d","y">>)>>,
       stats |-> <<StatSlot("hp", 35), StatSlot("attack", 45), StatSlot("defense", 160),
                   StatSlot("special-attack", 30), StatSlot("special-defense", 45)>>,
       sprites |-> [front_default |-> Some("sprites/pokemon/95.png")],
       height |-> 88, weight |-> 2100],
      [id |-> 175, name |-> s_togepi,
       types |-> <<TypeSlot("fairy")>>,
       abilities |-> <<AbilitySlot(<<"s","e","r","e","n","e","-","g","r","a","c","e">>)>>,
       stats |-> <<StatSlot("hp", 35), StatSlot("attack", 20), StatSlot("defense", 65),
                   StatSlot("speed", 20)>>,
       sprites |-> [front_default |-> None],
       height |-> 3, weight |-> 15] }

SpeciesCatalog ==
    { [id |-> 25, name |-> s_pikachu, is_legendary |-> FALSE, is_mythical |-> FALSE,
       flavor_text_entries |->
           <<[flavor_text |-> <<"j","a">>, language |-> [name |-> "ja"]],
             [flavor_text |-> <<"i","t","\n","z","a","p","s","\f","!">>,
              language |-> [name |-> "en"]],
             [flavor_text |-> <<"l","a","t","e","r">>, language |-> [name |-> "en"]]>>],
      [id |-> 6, name |-> s_charizard, is_legendary |-> FALSE, is_mythical |-> FALSE,
       flavor_text_entries |->
           <<[flavor_text |-> <<"f","e","u">>, language |-> [name |-> "fr"]]>>],
      [id |-> 95, name |-> s_onix, is_legendary |-> TRUE, is_mythical |-> TRUE,
       flavor_text_entries |->
           <<[flavor_text |-> <<"r","o","c","k","\n">>, language |-> [name |-> "en"]]>>] }

EntrySlot(n) == [pokemon_species |-> [name |-> n]]

Pokedexes ==
    { [name |-> <<"k","a","n","t","o">>,
       pokemon_entries |-> <<EntrySlot(s_pikachu), EntrySlot(s_togepi),
                             EntrySlot(s_onix), EntrySlot(s_charizard)>>],
      [name |-> <<"o","r","i","g","i","n","a","l","-","j","o","h","t","o">>,
       pokemon_entries |-> <<EntrySlot(s_onix), EntrySlot(s_gengar),
                             EntrySlot(s_pikachu)>>],
      [name |-> <<"h","o","e","n","n">>,
       pokemon_entries |-> << >>] }

\* What one GET may answer.  "ok" is a 200 with a JSON body, "status" any other
\* status, "fault" an exception raised by client.get or by response.json().
UpstreamAnswers(resource, key) ==
    LET hits == CASE resource = "pokemon" ->
                       {e \in Catalog : key = e.name \/ key = DecStr(e.id)}
                  [] resource = "pokemon-species" ->
                       {e \in SpeciesCatalog : key = e.name \/ key = DecStr(e.id)}
                  [] resource = "pokedex" ->
                       {e \in Pokedexes : key = e.name}
    IN  {[kind |-> "ok", body |-> e] : e \in hits} \cup
        {[kind |-> "status"], [kind |-> "fault"]}

(***************************************************************************)
(* Fetcher: fetch_pokemon_data and fetch_pokemon_species.                  *)
(***************************************************************************)
\* The key formatted into the URL, name_or_id.lower(); None when evaluating it
\* raises AttributeError (an int has no lower()).  The f-string is evaluated
\* inside the try block, before client.get is called.
FetchKey(name_or_id) ==
    IF name_or_id.kind = "str" THEN Some(Lower(name_or_id.s)) ELSE None

\* a fetcher whose except clause lets the exception of client.get through
FetchResultUncaught(answer) ==
    IF answer.kind = "ok" THEN Some(answer.body)
    ELSE IF answer.kind = "fault" THEN [some |-> FALSE, raised |-> TRUE]
    ELSE None

\* what the fetcher returns for one answer of the upstream
FetchResult(answer) ==
    IF answer.kind = "ok" THEN Some(answer.body) ELSE None

\* call is the last call of a fetcher made on its own: its resource, its
\* argument, what the upstream did ("unsent" when no GET was made) and
\* what the fetcher returned
NoCall == [resource |-> "", arg |-> StrVal(<< >>), answer |-> "", result |-> None]

\* one call of fetch_pokemon_data (resource "pokemon") or fetch_pokemon_species
\* (resource "pokemon-species"), from its try to its return
fetch_call(resource, name_or_id) ==
    LET key == FetchKey(name_or_id)
    IN  /\ IF ~key.some
           THEN call' = [resource |-> resource, arg |-> name_or_id,
                         answer |-> "unsent", result |-> None]
           ELSE \E a \in UpstreamAnswers(resource, key.v) :
                   call' = [resource |-> resource, arg |-> name_or_id,
                            answer |-> a.kind, result |-> FetchResult(a)]
        /\ UNCHANGED <<POKEMON_TEAMS, pending, response, batch>>

\* the results fetch_pokemon_data may return
fetch_pokemon_data(name_or_id) ==
    LET key == FetchKey(name_or_id)
    IN  IF key.some
        THEN {FetchResult(a) : a \in UpstreamAnswers("pokemon", key.v)}
        ELSE {None}

\* the results fetch_pokemon_species may return
fetch_pokemon_species(name_or_id) ==
    LET key == FetchKey(name_or_id)
    IN  IF key.some
        THEN {FetchResult(a) : a \in UpstreamAnswers("pokemon-species", key.v)}
        ELSE {None}

\* the GETs the two fetchers of one hydration put on the wire, in order
CoreGets(name) ==
    LET key == FetchKey(StrVal(name))
    IN  IF key.some THEN <<[resource |-> "pokemon", key |-> key.v]>> ELSE << >>

SpeciesGets(pokemon_data) ==
    LET key == FetchKey(IntVal(pokemon_data.id))
    IN  IF key.some THEN <<[resource |-> "pokemon-species", key |-> key.v]>> ELSE << >>

(***************************************************************************)
(* Hydrator: get_pokemon_details.                                          *)
(***************************************************************************)
ExtractTypes(pokemon_data) ==
    [i \in 1..Len(pokemon_data.types) |-> pokemon_data.types[i].type.name]

ExtractAbilities(pokemon_data) ==
    [i \in 1..Len(pokemon_data.abilities) |->
        Replace(pokemon_data.abilities[i].ability.name, "-", " ")]

\* the dict comprehension: the last entry of a repeated statistic name wins
ExtractStats(pokemon_data) ==
    LET l == pokemon_data.stats
        last(n) == CHOOSE i \in 1..Len(l) :
                      /\ l[i].stat.name = n
                      /\ \A j \in 1..Len(l) : l[j].stat.name = n => j <= i
    IN  [n \in {l[i].stat.name : i \in 1..Len(l)} |-> l[last(n)].base_stat]

IsEnglish(entry) == entry.language.name = "en"

ExtractDescription(species_data) ==
    IF ~species_data.some THEN None
    ELSE LET english_entries == SelectSeq(species_data.v.flavor_text_entries, IsEnglish)
         IN  IF english_entries = << >> THEN None
             ELSE Some(Replace(Replace(english_entries[1].flavor_text, "\n", " "),
                               "\f", " "))

\* PokemonDetail(...): the model validates its fields; sprite_url is declared
\* str, so a null front_default raises ValidationError out of the hydrator.
PokemonDetail(pokemon_data, species_data) ==
    IF ~pokemon_data.sprites.front_default.some
    THEN [tag |-> "raised"]
    ELSE [tag |-> "record",
          rec |-> [id |-> pokemon_data.id,
                   name |-> pokemon_data.name,
                   types |-> ExtractTypes(pokemon_data),
                   sprite_url |-> pokemon_data.sprites.front_default.v,
                   height |-> pokemon_data.height,
                   weight |-> pokemon_data.weight,
                   abilities |-> ExtractAbilities(pokemon_data),
                   stats |-> ExtractStats(pokemon_data),
                   is_legendary |-> IF species_data.some
                                    THEN species_data.v.is_legendary ELSE FALSE,
                   is_mythical |-> IF species_data.some
                                   THEN species_data.v.is_mythical ELSE FALSE,
                   description |-> ExtractDescription(species_data)]]

\* a hydrator that names the record after the request, not after the payload
get_pokemon_details_named_by_request(name_or_id) ==
    UNION { IF ~pokemon_data.some
            THEN { [out |-> [tag |-> "none"], gets |-> CoreGets(name_or_id)] }
            ELSE { LET made == PokemonDetail(pokemon_data.v, species_data)
                   IN  [out |-> IF made.tag = "record"
                                THEN [made EXCEPT !.rec.name = Lower(name_or_id)]
                                ELSE made,
                        gets |-> CoreGets(name_or_id) \o SpeciesGets(pokemon_data.v)] :
                   species_data \in fetch_pokemon_species(IntVal(pokemon_data.v.id)) } :
            pokemon_data \in fetch_pokemon_data(StrVal(name_or_id)) }

\* a hydrator that asks for the species under the request string whether or
\* not the core fetch returned a payload
get_pokemon_details_species_always(name_or_id) ==
    LET species_get == <<[resource |-> "pokemon-species", key |-> Lower(name_or_id)]>>
    IN  UNION { IF ~pokemon_data.some
                THEN { [out |-> [tag |-> "none"],
                        gets |-> CoreGets(name_or_id) \o species_get] }
                ELSE { [out |-> PokemonDetail(pokemon_data.v, species_data),
                        gets |-> CoreGets(name_or_id) \o species_get] :
                       species_data \in fetch_pokemon_species(IntVal(pokemon_data.v.id)) } :
                pokemon_data \in fetch_pokemon_data(StrVal(name_or_id)) }

\* One run of get_pokemon_details(name_or_id): what it returns ("none" is the
\* None return, "raised" an exception leaving the coroutine) and the GETs it
\* issued.  The coroutine suspends at the core GET; with the species key being
\* an int its second fetcher returns without reaching client.get.
get_pokemon_details(name_or_id) ==
    UNION { IF ~pokemon_data.some
            THEN { [out |-> [tag |-> "none"], gets |-> CoreGets(name_or_id)] }
            ELSE { [out |-> PokemonDetail(pokemon_data.v, species_data),
                    gets |-> CoreGets(name_or_id) \o SpeciesGets(pokemon_data.v)] :
                   species_data \in fetch_pokemon_species(IntVal(pokemon_data.v.id)) } :
            pokemon_data \in fetch_pokemon_data(StrVal(name_or_id)) }

(***************************************************************************)
(* Inputs: the users and identifiers the requests are drawn from.          *)
(***************************************************************************)
Users == {"u1", "u2"}

TeamNames == {s_Pikachu, DecStr(25), s_onix, s_togepi}

\* user u1 asks for every name, user u2 only for onix
TeamInputs == ({"u1"} \X TeamNames) \cup ({"u2"} \X {s_onix})

BatchNames == {s_Pikachu, DecStr(6), s_togepi, s_gengar}

\* get_pokemon_details over every identifier a request can hold
HydrationNames ==
    TeamNames \cup BatchNames \cup {s_onix} \cup {DecStr(e.id) : e \in Catalog}
    \cup UNION {{FAMOUS_TRAINERS[t][i] : i \in 1..Len(FAMOUS_TRAINERS[t])} :
                t \in DOMAIN FAMOUS_TRAINERS}
    \cup UNION {{d.pokemon_entries[i].pokemon_species.name :
                    i \in 1..Len(d.pokemon_entries)} : d \in Pokedexes}

Hydrations == [n \in HydrationNames |-> get_pokemon_details(n)]

(***************************************************************************)
(* Team store: POKEMON_TEAMS, get_team, add_to_team, remove_from_team.     *)
(* pending counts the add_to_team coroutines suspended in                  *)
(* get_pokemon_details, by their arguments; response is the last response  *)
(* sent (a 200 of a team request carries POKEMON_TEAMS[user]).             *)
(***************************************************************************)
TeamCap == 6

\* the store rebound to a dict holding the one key: POKEMON_TEAMS = {k: x}
SetKeyAlone(f, k, x) == [y \in {k} |-> x]

SetKey(f, k, x) == [y \in DOMAIN f \cup {k} |-> IF y = k THEN x ELSE f[y]]

\* pop(i - 1): the member before the match goes, the last one when the
\* match is the first member
RemoveAtBefore(s, i) ==
    LET k == IF i = 1 THEN Len(s) ELSE i - 1
    IN  [j \in 1..(Len(s) - 1) |-> IF j < k THEN s[j] ELSE s[j + 1]]

RemoveAt(s, i) == [j \in 1..(Len(s) - 1) |-> IF j < i THEN s[j] ELSE s[j + 1]]

Reply(op, user_id, name, status, detail) ==
    [op |-> op, user |-> user_id, name |-> name, status |-> status, detail |-> detail]

NoReply == Reply("none", "", << >>, 0, "")

InFlight == LET RECURSIVE Sum(_)
                Sum(S) == IF S = {} THEN 0
                          ELSE LET x == CHOOSE y \in S : TRUE
                               IN  pending[x] + Sum(S \ {x})
            IN  Sum(DOMAIN pending)

Stored == LET RECURSIVE Sum(_)
              Sum(S) == IF S = {} THEN 0
                        ELSE LET x == CHOOSE y \in S : TRUE
                             IN  Len(POKEMON_TEAMS[x]) + Sum(S \ {x})
          IN  Sum(DOMAIN POKEMON_TEAMS)

\* the member list get_team reports for a user
TeamOf(teams, user_id) ==
    IF user_id \notin DOMAIN teams \/ teams[user_id] = << >>
    THEN << >> ELSE teams[user_id]

\* the capacity check written with > for >=
TeamFullOffByOne(team) == Len(team) > TeamCap

\* the two checks add_to_team makes before it hydrates
TeamFull(team) == Len(team) >= TeamCap

AlreadyInTeam(team, pokemon_name) ==
    LET lowered == Lower(pokemon_name)
    IN  \E i \in 1..Len(team) : team[i].name = lowered

\* add_to_team up to its await: the team is created if missing, then the
\* capacity check and the duplicate check
add_to_team_begin(user_id, pokemon_name) ==
    LET teams == IF user_id \notin DOMAIN POKEMON_TEAMS
                 THEN SetKey(POKEMON_TEAMS, user_id, << >>) ELSE POKEMON_TEAMS
    IN  /\ InFlight < MaxInFlight
        /\ Stored + InFlight < MaxStore
        /\ POKEMON_TEAMS' = teams
        /\ IF TeamFull(teams[user_id])
           THEN /\ response' = Reply("add", user_id, pokemon_name, 400, "full")
                /\ UNCHANGED pending
           ELSE IF AlreadyInTeam(teams[user_id], pokemon_name)
           THEN /\ response' = Reply("add", user_id, pokemon_name, 400, "duplicate")
                /\ UNCHANGED pending
           ELSE /\ pending' = [pending EXCEPT ![<<user_id, pokemon_name>>] = @ + 1]
                /\ UNCHANGED response
        /\ UNCHANGED <<batch, call>>

\* add_to_team from the return of get_pokemon_details to its response
add_to_team_resume(user_id, pokemon_name) ==
    /\ pending[<<user_id, pokemon_name>>] > 0
    /\ pending' = [pending EXCEPT ![<<user_id, pokemon_name>>] = @ - 1]
    /\ \E h \in Hydrations[pokemon_name] :
          CASE h.out.tag = "raised" ->
                 /\ response' = Reply("add", user_id, pokemon_name, 500, "error")
                 /\ UNCHANGED POKEMON_TEAMS
            [] h.out.tag = "none" ->
                 /\ response' = Reply("add", user_id, pokemon_name, 404, "not found")
                 /\ UNCHANGED POKEMON_TEAMS
            [] h.out.tag = "record" ->
                 /\ POKEMON_TEAMS' = [POKEMON_TEAMS EXCEPT
                                         ![user_id] = Append(@, h.out.rec)]
                 /\ response' = Reply("add", user_id, pokemon_name, 200, "")
    /\ UNCHANGED <<batch, call>>

\* a loop index that survives the loop: without a match the last member goes
FirstMatchOrLast(team, pokemon_name) ==
    LET lowered == Lower(pokemon_name)
        hits == {i \in 1..Len(team) : Lower(team[i].name) = lowered}
    IN  IF hits = {} THEN Len(team) ELSE CHOOSE i \in hits : \A j \in hits : i <= j

\* the index remove_from_team pops: the first member whose lowercase name is
\* the lowercase request name; 0 when the loop ends without a match
FirstMatch(team, pokemon_name) ==
    LET lowered == Lower(pokemon_name)
        hits == {i \in 1..Len(team) : Lower(team[i].name) = lowered}
    IN  IF hits = {} THEN 0 ELSE CHOOSE i \in hits : \A j \in hits : i <= j

remove_from_team(user_id, pokemon_name) ==
    /\ IF user_id \notin DOMAIN POKEMON_TEAMS \/ POKEMON_TEAMS[user_id] = << >>
       THEN /\ response' = Reply("remove", user_id, pokemon_name, 404, "no team")
            /\ UNCHANGED POKEMON_TEAMS
       ELSE LET i == FirstMatch(POKEMON_TEAMS[user_id], pokemon_name)
            IN  IF i > 0
                THEN /\ POKEMON_TEAMS' = [POKEMON_TEAMS EXCEPT
                                             ![user_id] = RemoveAt(@, i)]
                     /\ response' = Reply("remove", user_id, pokemon_name, 200, "")
                ELSE /\ response' = Reply("remove", user_id, pokemon_name, 404,
                                          "not in team")
                     /\ UNCHANGED POKEMON_TEAMS
    /\ UNCHANGED <<pending, batch, call>>

get_team(user_id) ==
    /\ response' = Reply("get", user_id, << >>, 200, "")
    /\ UNCHANGED <<POKEMON_TEAMS, pending, batch, call>>

(***************************************************************************)
(* Comparator: the comparison dict of compare_pokemon.                     *)
(***************************************************************************)
ComparedStats == <<"hp", "attack", "defense", "special-attack", "special-defense", "speed">>

\* p.stats.get(stat, 0)
StatGet(p, stat) == IF stat \in DOMAIN p.stats THEN p.stats[stat] ELSE 0

\* a scan that replaces the best pair on >= : the last largest pair wins
PyMaxLast(pairs) ==
    pairs[CHOOSE i \in 1..Len(pairs) :
             /\ \A j \in 1..Len(pairs) : pairs[j][2] <= pairs[i][2]
             /\ \A j \in (i + 1)..Len(pairs) : pairs[j][2] < pairs[i][2]]

\* max(pairs, key=lambda x: x[1]): the first pair holding the largest key
PyMax(pairs) ==
    pairs[CHOOSE i \in 1..Len(pairs) :
             /\ \A j \in 1..Len(pairs) : pairs[j][2] <= pairs[i][2]
             /\ \A j \in 1..(i - 1) : pairs[j][2] < pairs[i][2]]

\* min(pairs, key=lambda x: x[1]): the first pair holding the smallest key
PyMin(pairs) ==
    pairs[CHOOSE i \in 1..Len(pairs) :
             /\ \A j \in 1..Len(pairs) : pairs[j][2] >= pairs[i][2]
             /\ \A j \in 1..(i - 1) : pairs[j][2] > pairs[i][2]]

HasType(p, type_name) == \E k \in 1..Len(p.types) : p.types[k] = type_name

Comparison(pokemon_list) ==
    LET n == Len(pokemon_list)
        StatPairs(stat) == [i \in 1..n |-> <<pokemon_list[i].name, StatGet(pokemon_list[i], stat)>>]
        Heights == [i \in 1..n |-> <<pokemon_list[i].name, pokemon_list[i].height>>]
        Weights == [i \in 1..n |-> <<pokemon_list[i].name, pokemon_list[i].weight>>]
        all_types == UNION {{pokemon_list[i].types[k] : k \in 1..Len(pokemon_list[i].types)} :
                            i \in 1..n}
        Carriers(type_name) ==
            LET Carries(p) == HasType(p, type_name)
                kept == SelectSeq(pokemon_list, Carries)
            IN  [i \in 1..Len(kept) |-> kept[i].name]
    IN  [stats |-> [stat \in {ComparedStats[k] : k \in 1..Len(ComparedStats)} |->
                       [highest |-> PyMax(StatPairs(stat)),
                        lowest |-> PyMin(StatPairs(stat))]],
         types |-> [type_name \in all_types |-> Carriers(type_name)],
         height |-> [highest |-> PyMax(Heights), lowest |-> PyMin(Heights)],
         weight |-> [highest |-> PyMax(Weights), lowest |-> PyMin(Weights)]]

(***************************************************************************)
(* Inputs of the batch requests.                                           *)
(***************************************************************************)
RECURSIVE Lists(_, _)
\* the lists over S of length at most n
Lists(S, n) ==
    IF n = 0 THEN {<< >>}
    ELSE LET shorter == Lists(S, n - 1)
         IN  shorter \cup {Append(l, x) : l \in shorter, x \in S}

\* every short list, one name repeated up to MaxRepeat times, and every pair
\* made of a name and onix
CompareInputs ==
    Lists(BatchNames, MaxListLen) \cup
    {[i \in 1..k |-> s_onix] : k \in 0..MaxRepeat} \cup
    {<<x, s_onix>> : x \in BatchNames} \cup {<<s_onix, x>> : x \in BatchNames}

TrainerInputs == DOMAIN FAMOUS_TRAINERS \cup {s_Ash, s_oak}

RegionInputs == {s_kanto, s_Kanto, s_johto, s_hoenn, s_galar, s_oak}

Limits == (0 - 2)..MaxLimit

Offsets == (0 - 2)..MaxLimit

(***************************************************************************)
(* Batch operations: compare_pokemon, get_trainer_pokemon,                 *)
(* get_region_pokemon and the single lookup get_pokemon.  batch is the     *)
(* request being served: its handler's position (phase), the hydration     *)
(* coroutines it launched (tasks, in launch order), the GETs put on the    *)
(* wire for it (gets), and its response once sent.                         *)
(***************************************************************************)
Pending == [tag |-> "pending"]

NoComparison == [some |-> FALSE]

IdleBatch ==
    [op |-> "none", req |-> << >>, phase |-> "idle", names |-> << >>, tasks |-> << >>,
     gets |-> << >>, status |-> 0, detail |-> "", result |-> << >>,
     comparison |-> NoComparison]

\* a request may start once the previous one has been answered
CanStart == batch.phase \in {"idle", "responded"}

Respond(b, status, detail, result, comparison) ==
    [b EXCEPT !.phase = "responded", !.status = status, !.detail = detail,
              !.result = result, !.comparison = comparison]

\* tasks = [get_pokemon_details(name) for name in names]; asyncio.gather(*tasks):
\* every coroutine runs to its first await, the core GET
Launch(op, req, gets, names) ==
    [IdleBatch EXCEPT !.op = op, !.req = req, !.phase = "gather", !.names = names,
                      !.tasks = [i \in 1..Len(names) |-> Pending],
                      !.gets = gets \o [i \in 1..Len(names) |-> CoreGets(names[i])[1]]]

\* the results taken last-first instead of in argument order
ResolvedReversed(tasks) ==
    LET IsRecord(t) == t.tag = "record"
        kept == SelectSeq(tasks, IsRecord)
    IN  [i \in 1..Len(kept) |-> kept[Len(kept) + 1 - i].rec]

\* [result for result in results if result]
Resolved(tasks) ==
    LET IsRecord(t) == t.tag = "record"
        kept == SelectSeq(tasks, IsRecord)
    IN  [i \in 1..Len(kept) |-> kept[i].rec]

\* s[start:stop] of Python
PySlice(s, start, stop) ==
    LET n == Len(s)
        Clamp(i) == IF i < 0 THEN (IF i + n < 0 THEN 0 ELSE i + n)
                    ELSE (IF i > n THEN n ELSE i)
        lo == Clamp(start)
        hi == Clamp(stop)
    IN  IF lo >= hi THEN << >> ELSE SubSeq(s, lo + 1, hi)

\* the two size checks of compare_pokemon
TooFew(pokemon_names) == Len(pokemon_names) < 2

\* the upper size check off by one
TooManyOffByOne(pokemon_names) == Len(pokemon_names) > 7

TooMany(pokemon_names) == Len(pokemon_names) > 6

\* the emptiness check written as a check for fewer than two records
FewerThanTwo(pokemon_list) == Len(pokemon_list) < 2

\* if not pokemon_list
NoneFound(pokemon_list) == pokemon_list = << >>

compare_pokemon_begin(pokemon_names) ==
    /\ CanStart
    /\ batch' = IF TooFew(pokemon_names)
                THEN Respond([IdleBatch EXCEPT !.op = "compare", !.req = pokemon_names],
                             400, "at least 2", << >>, NoComparison)
                ELSE IF TooMany(pokemon_names)
                THEN Respond([IdleBatch EXCEPT !.op = "compare", !.req = pokemon_names],
                             400, "maximum 6", << >>, NoComparison)
                ELSE Launch("compare", pokemon_names, << >>, pokemon_names)
    /\ UNCHANGED <<POKEMON_TEAMS, pending, response, call>>

get_trainer_pokemon_begin(trainer_name) ==
    LET lowered == Lower(trainer_name)
    IN  /\ CanStart
        /\ batch' = IF lowered \notin DOMAIN FAMOUS_TRAINERS
                    THEN Respond([IdleBatch EXCEPT !.op = "trainer", !.req = trainer_name],
                                 404, "trainer not found", << >>, NoComparison)
                    ELSE Launch("trainer", trainer_name, << >>, FAMOUS_TRAINERS[lowered])
        /\ UNCHANGED <<POKEMON_TEAMS, pending, response, call>>

\* get_region_pokemon up to its first await, the GET of the region's pokedex
get_region_pokemon_begin(region_name, limit, offset) ==
    LET lowered == Lower(region_name)
        req == [region_name |-> region_name, limit |-> limit, offset |-> offset]
    IN  /\ CanStart
        /\ batch' = IF lowered \notin DOMAIN POKEMON_REGIONS
                    THEN Respond([IdleBatch EXCEPT !.op = "region", !.req = req],
                                 404, "region not found", << >>, NoComparison)
                    ELSE [IdleBatch EXCEPT
                             !.op = "region", !.req = req, !.phase = "pokedex",
                             !.gets = <<[resource |-> "pokedex",
                                         key |-> POKEMON_REGIONS[lowered].pokedex]>>]
        /\ UNCHANGED <<POKEMON_TEAMS, pending, response, call>>

\* get_region_pokemon from the pokedex answer to the launch of the hydrations;
\* client.get is not guarded here, so a fault leaves the handler as an exception
get_region_pokemon_pokedex ==
    /\ batch.phase = "pokedex"
    /\ \E answer \in UpstreamAnswers("pokedex", batch.gets[1].key) :
          batch' =
             IF answer.kind = "fault"
             THEN Respond(batch, 500, "error", << >>, NoComparison)
             ELSE IF answer.kind = "status"
             THEN Respond(batch, 500, "failed to fetch region data", << >>, NoComparison)
             ELSE LET pokemon_entries == answer.body.pokemon_entries
                      paginated_entries ==
                          PySlice(pokemon_entries, batch.req.offset,
                                  batch.req.offset + batch.req.limit)
                      names == [i \in 1..Len(paginated_entries) |->
                                   paginated_entries[i].pokemon_species.name]
                  IN  Launch("region", batch.req, batch.gets, names)
    /\ UNCHANGED <<POKEMON_TEAMS, pending, response, call>>

get_pokemon_begin(name_or_id) ==
    /\ CanStart
    /\ batch' = Launch("single", name_or_id, << >>, <<name_or_id>>)
    /\ UNCHANGED <<POKEMON_TEAMS, pending, response, call>>

\* one hydration coroutine runs from the answer of its core GET to its end;
\* the coroutines of an answered request keep running
hydration_complete(i) ==
    /\ batch.phase \in {"gather", "responded"}
    /\ i \in 1..Len(batch.tasks)
    /\ batch.tasks[i] = Pending
    /\ \E h \in Hydrations[batch.names[i]] :
          batch' = [batch EXCEPT !.tasks[i] = h.out,
                                 !.gets = @ \o SubSeq(h.gets, 2, Len(h.gets))]
    /\ UNCHANGED <<POKEMON_TEAMS, pending, response, call>>

\* the first exception of a gathered coroutine is propagated to the awaiting
\* handler at once, which no handler catches: the request is answered 500
gather_raise ==
    /\ batch.phase = "gather"
    /\ \E i \in 1..Len(batch.tasks) : batch.tasks[i].tag = "raised"
    /\ batch' = Respond(batch, 500, "error", << >>, NoComparison)
    /\ UNCHANGED <<POKEMON_TEAMS, pending, response, call>>

\* gather returns the results in the order of its arguments once every
\* coroutine has returned; the handler then builds its response (get_pokemon
\* awaits its one hydration directly and is answered the same way)
gather_return ==
    /\ batch.phase = "gather"
    /\ \A i \in 1..Len(batch.tasks) : batch.tasks[i].tag \in {"record", "none"}
    /\ LET pokemon_list == Resolved(batch.tasks)
       IN  batch' =
              CASE batch.op = "compare" ->
                     IF NoneFound(pokemon_list)
                     THEN Respond(batch, 404, "none found", << >>, NoComparison)
                     ELSE Respond(batch, 200, "", pokemon_list,
                                  Some(Comparison(pokemon_list)))
                [] batch.op = "single" ->
                     IF NoneFound(pokemon_list)
                     THEN Respond(batch, 404, "pokemon not found", << >>, NoComparison)
                     ELSE Respond(batch, 200, "", pokemon_list, NoComparison)
                [] OTHER -> Respond(batch, 200, "", pokemon_list, NoComparison)
    /\ UNCHANGED <<POKEMON_TEAMS, pending, response, call>>

(***************************************************************************)
(* Specifications.                                                         *)
(***************************************************************************)
Init ==
    /\ POKEMON_TEAMS = << >>
    /\ pending = [p \in TeamInputs |-> 0]
    /\ response = NoReply
    /\ batch = IdleBatch
    /\ call = NoCall

NextTeam ==
    \/ \E p \in TeamInputs : add_to_team_begin(p[1], p[2])
    \/ \E p \in TeamInputs : add_to_team_resume(p[1], p[2])
    \/ \E p \in TeamInputs : remove_from_team(p[1], p[2])
    \/ \E u \in Users : get_team(u)

SpecTeam == Init /\ [][NextTeam]_vars

NextBatch ==
    \/ \E l \in CompareInputs : compare_pokemon_begin(l)
    \/ \E t \in TrainerInputs : get_trainer_pokemon_begin(t)
    \/ \E r \in RegionInputs, limit \in Limits, offset \in Offsets :
          get_region_pokemon_begin(r, limit, offset)
    \/ get_region_pokemon_pokedex
    \/ \E n \in BatchNames : get_pokemon_begin(n)
    \/ \E i \in 1..Len(batch.tasks) : hydration_complete(i)
    \/ gather_raise
    \/ gather_return

SpecBatch == Init /\ [][NextBatch]_vars

\* the arguments the fetchers are called with: request strings and integer ids
FetchInputs == {StrVal(n) : n \in HydrationNames} \cup {IntVal(e.id) : e \in Catalog}

NextFetch ==
    \/ \E a \in FetchInputs : fetch_call("pokemon", a)
    \/ \E a \in FetchInputs : fetch_call("pokemon-species", a)

SpecFetch == Init /\ [][NextFetch]_vars

(***************************************************************************)
(* Claims about the team store, checked under SpecTeam.                    *)
(***************************************************************************)
\* C1: in every reachable state every user's team has at most 6 members,
\* also when add requests for one user are in flight at the same time.
C1_TeamSizeCap ==
    \A u \in DOMAIN POKEMON_TEAMS : Len(POKEMON_TEAMS[u]) <= 6

\* C2: in every reachable state no team holds two members with the same
\* lowercase name, whichever way the entity was requested.
C2_UniqueLowercaseNames ==
    \A u \in DOMAIN POKEMON_TEAMS :
        \A i, j \in 1..Len(POKEMON_TEAMS[u]) :
            i # j => Lower(POKEMON_TEAMS[u][i].name) # Lower(POKEMON_TEAMS[u][j].name)

HasMember(team, pokemon_name) ==
    \E i \in 1..Len(team) : Lower(team[i].name) = Lower(pokemon_name)

RecordsFor(pokemon_name) ==
    {h.out.rec : h \in {g \in Hydrations[pokemon_name] : g.out.tag = "record"}}

\* C3: an add that fails (team of 6, a member of the same lowercase name, or
\* an absent hydration) leaves every member list as it was; a request failing
\* the capacity or the duplicate check is rejected without being hydrated; and
\* the only change an add makes is the append of the hydrated record at the end.
C3_FailedAddLeavesTeam ==
    [][\A p \in TeamInputs :
          LET u == p[1]
              n == p[2]
              before == TeamOf(POKEMON_TEAMS, u)
              after == TeamOf(POKEMON_TEAMS', u)
          IN  /\ add_to_team_begin(u, n) =>
                    /\ after = before
                    /\ Len(before) >= 6 =>
                          /\ response' = Reply("add", u, n, 400, "full")
                          /\ pending' = pending
                    /\ (Len(before) < 6 /\ HasMember(before, n)) =>
                          /\ response' = Reply("add", u, n, 400, "duplicate")
                          /\ pending' = pending
                    /\ \A v \in Users : TeamOf(POKEMON_TEAMS', v) = TeamOf(POKEMON_TEAMS, v)
              /\ add_to_team_resume(u, n) =>
                    /\ response'.op = "add" /\ response'.user = u /\ response'.name = n
                    /\ response'.status # 200 => POKEMON_TEAMS' = POKEMON_TEAMS
                    /\ response'.status = 200 =>
                          /\ Len(after) = Len(before) + 1
                          /\ SubSeq(after, 1, Len(before)) = before
                          /\ after[Len(after)] \in RecordsFor(n)
      ]_vars

\* an add to a team of six has been rejected
C3_Witness ==
    /\ response.op = "add" /\ response.status = 400 /\ response.detail = "full"
    /\ Len(POKEMON_TEAMS[response.user]) = 6

\* C4: removing a member's name shrinks the team by exactly one, the first
\* match going and the rest keeping their order, and a second removal of the
\* same name for the same user that follows at once fails with not-found.
C4_RemoveTwice ==
    [][\A p \in TeamInputs :
          LET u == p[1]
              n == p[2]
              before == TeamOf(POKEMON_TEAMS, u)
              after == TeamOf(POKEMON_TEAMS', u)
              first == CHOOSE i \in 1..Len(before) :
                          /\ Lower(before[i].name) = Lower(n)
                          /\ \A j \in 1..(i - 1) : Lower(before[j].name) # Lower(n)
          IN  remove_from_team(u, n) =>
                 /\ HasMember(before, n) =>
                       /\ response' = Reply("remove", u, n, 200, "")
                       /\ Len(after) = Len(before) - 1
                       /\ after = SubSeq(before, 1, first - 1)
                                  \o SubSeq(before, first + 1, Len(before))
                 /\ response = Reply("remove", u, n, 200, "") =>
                       response'.status = 404
      ]_vars

\* C5: a remove for a user without a team, with an empty team, or for a name
\* no member matches in lowercase, answers not-found and changes no team.
C5_RemoveMissing ==
    [][\A p \in TeamInputs :
          LET u == p[1]
              n == p[2]
          IN  (remove_from_team(u, n) /\ ~HasMember(TeamOf(POKEMON_TEAMS, u), n)) =>
                 /\ response'.op = "remove" /\ response'.user = u /\ response'.name = n
                 /\ response'.status = 404
                 /\ POKEMON_TEAMS' = POKEMON_TEAMS
      ]_vars

\* a remove of a name that matches no member of a non-empty team was answered
C5_Witness ==
    /\ response.op = "remove" /\ response.status = 404
    /\ response.detail = "not in team"
    /\ POKEMON_TEAMS[response.user] # << >>
    /\ ~HasMember(POKEMON_TEAMS[response.user], response.name)

(***************************************************************************)
(* Claims about the batch operations, checked under SpecBatch.             *)
(***************************************************************************)
Answered == batch.phase = "responded"

RecordSlots == {i \in 1..Len(batch.tasks) : batch.tasks[i].tag = "record"}

NoneSlots == {i \in 1..Len(batch.tasks) : batch.tasks[i].tag = "none"}

\* the k-th smallest member of a set of integers
Kth(S, k) == CHOOSE i \in S : Cardinality({j \in S : j < i}) = k - 1

\* the result is the records of the resolved slots, in slot order
InInputOrder(result) ==
    /\ Len(result) = Cardinality(RecordSlots)
    /\ \A k \in 1..Len(result) :
          /\ result[k] = batch.tasks[Kth(RecordSlots, k)].rec
          /\ result[k] \in RecordsFor(batch.names[Kth(RecordSlots, k)])

\* C6: the list a batch operation returns is its identifier list with the
\* failed identifiers removed, in input order, whatever the completion order.
C6_InputOrderKept ==
    (Answered /\ batch.status = 200 /\ batch.op \in {"compare", "trainer", "region"}) =>
        /\ InInputOrder(batch.result)
        /\ batch.op = "compare" => batch.names = batch.req
        /\ batch.op = "trainer" => batch.names = FAMOUS_TRAINERS[Lower(batch.req)]

\* a batch answered with two records around an identifier that failed
C6_Witness ==
    /\ Answered /\ batch.status = 200 /\ batch.op \in {"compare", "trainer", "region"}
    /\ \E i, j, k \in 1..Len(batch.tasks) :
          /\ i < j /\ j < k
          /\ batch.tasks[i].tag = "record"
          /\ batch.tasks[j].tag = "none"
          /\ batch.tasks[k].tag = "record"
          /\ batch.tasks[i].rec # batch.tasks[k].rec

\* C7: compare rejects a list of size 0, 1 or 7 and more with a validation
\* error and no GET is ever issued for that request; a list of size 2 to 6
\* passes and a core GET is issued for each of its names.
C7_SizeCheckedBeforeFetch ==
    batch.op = "compare" =>
        /\ (Len(batch.req) < 2 \/ Len(batch.req) > 6) =>
              /\ Answered /\ batch.status = 400
              /\ batch.gets = << >> /\ batch.tasks = << >>
        /\ (Len(batch.req) >= 2 /\ Len(batch.req) <= 6) =>
              /\ batch.status # 400
              /\ Len(batch.tasks) = Len(batch.req)
              /\ Len(batch.gets) >= Len(batch.req)
              /\ \A i \in 1..Len(batch.req) :
                    batch.gets[i] = [resource |-> "pokemon", key |-> Lower(batch.req[i])]

\* a list of seven names was rejected
C7_Witness ==
    /\ batch.op = "compare" /\ Len(batch.req) = 7
    /\ Answered /\ batch.status = 400

AllReturned == Cardinality(RecordSlots) + Cardinality(NoneSlots) = Len(batch.tasks)

ValidCompare ==
    /\ batch.op = "compare" /\ Answered
    /\ Len(batch.req) >= 2 /\ Len(batch.req) <= 6

\* C8 as stated: compare fails whenever fewer than 2 of the requested
\* identifiers resolve; a request of which exactly one resolves returns no
\* comparison result.
C8_FailsBelowTwo ==
    (ValidCompare /\ AllReturned /\ Cardinality(RecordSlots) < 2) =>
        /\ batch.status # 200
        /\ ~batch.comparison.some

\* C8 amended: the only failure that resolution causes is the not-found error
\* answered when no identifier resolves; with exactly one identifier resolved
\* and the others absent a comparison over that one record is returned.
C8_FailsOnlyWhenNoneResolve ==
    ValidCompare =>
        /\ batch.status # 400
        /\ batch.status = 404 => (AllReturned /\ RecordSlots = {})
        /\ (AllReturned /\ RecordSlots = {}) => batch.status = 404
        /\ (AllReturned /\ Cardinality(RecordSlots) = 1) =>
              /\ batch.status = 200
              /\ batch.result = <<batch.tasks[Kth(RecordSlots, 1)].rec>>
              /\ batch.comparison.some

\* a compare of which exactly one identifier resolved was answered
C8_Witness ==
    /\ ValidCompare /\ AllReturned /\ Cardinality(RecordSlots) = 1
    /\ batch.status = 200

\* C9: for a compare of valid size, if every identifier fails to resolve the
\* answer is a not-found error, and if at least 2 resolve a comparison over
\* exactly the resolved records is returned, even when others failed.
C9_AllFailOrTwoResolve ==
    ValidCompare =>
        /\ (AllReturned /\ RecordSlots = {}) => batch.status = 404
        /\ Cardinality(RecordSlots) >= 2 =>
              /\ batch.status = 200
              /\ InInputOrder(batch.result)
              /\ batch.comparison.some

\* C10: an entity served with a null sprite reference hydrates into a record
\* (no hydration raises), and a batch holding it is not failed by it.
C10_NullSpriteTolerated ==
    /\ \A i \in 1..Len(batch.tasks) : batch.tasks[i].tag # "raised"
    /\ (Answered /\ batch.op \in {"compare", "trainer", "single"}) => batch.status # 500

\* the value compare uses for a statistic, 0 when the record lacks it
ValueOf(p, stat) == IF stat \in DOMAIN p.stats THEN p.stats[stat] ELSE 0

\* pair is the name and value of the first record of the list, in list order,
\* whose value is the largest (sign = 1) or the smallest (sign = -1)
FirstExtreme(pair, names, values, sign) ==
    \E i \in 1..Len(values) :
        /\ pair = <<names[i], values[i]>>
        /\ \A j \in 1..Len(values) : sign * values[j] <= sign * values[i]
        /\ \A j \in 1..(i - 1) : sign * values[j] < sign * values[i]

\* C11: for each of the six statistics, and for height and weight, compare
\* reports as highest (lowest) the first record in input order that attains
\* the maximum (minimum), a record lacking a statistic counting as 0.
C11_FirstExtremeWins ==
    (batch.op = "compare" /\ Answered /\ batch.status = 200) =>
        LET l == batch.result
            c == batch.comparison.v
            names == [i \in 1..Len(l) |-> l[i].name]
            heights == [i \in 1..Len(l) |-> l[i].height]
            weights == [i \in 1..Len(l) |-> l[i].weight]
        IN  /\ DOMAIN c.stats =
                  {"hp", "attack", "defense", "special-attack", "special-defense", "speed"}
            /\ \A stat \in DOMAIN c.stats :
                  LET values == [i \in 1..Len(l) |-> ValueOf(l[i], stat)]
                  IN  /\ FirstExtreme(c.stats[stat].highest, names, values, 1)
                      /\ FirstExtreme(c.stats[stat].lowest, names, values, 0 - 1)
            /\ FirstExtreme(c.height.highest, names, heights, 1)
            /\ FirstExtreme(c.height.lowest, names, heights, 0 - 1)
            /\ FirstExtreme(c.weight.highest, names, weights, 1)
            /\ FirstExtreme(c.weight.lowest, names, weights, 0 - 1)

\* a comparison of two records of different names that tie for the highest hp,
\* the second of which lacks the speed statistic
C11_Witness ==
    /\ batch.op = "compare" /\ Answered /\ batch.status = 200
    /\ Len(batch.result) = 2
    /\ batch.result[1].name # batch.result[2].name
    /\ batch.result[1].stats["hp"] = batch.result[2].stats["hp"]
    /\ batch.comparison.v.stats["hp"].highest[1] = batch.result[1].name
    /\ "speed" \notin DOMAIN batch.result[2].stats
    /\ batch.comparison.v.stats["speed"].lowest = <<batch.result[2].name, 0>>

\* C12: a region lookup with offset o and limit l never returns more than
\* max(0, l) records, and the identifiers it hydrates are the entries at
\* positions o .. o+l-1 of the pokedex entry list, in entry order.
C12_SliceBounded ==
    (batch.op = "region" /\ Answered /\ batch.status = 200) =>
        LET o == batch.req.offset
            l == batch.req.limit
            dex == CHOOSE d \in Pokedexes : d.name = batch.gets[1].key
            positions == {k \in 0..(Len(dex.pokemon_entries) - 1) : o <= k /\ k <= o + l - 1}
        IN  /\ Len(batch.result) <= (IF l > 0 THEN l ELSE 0)
            /\ Len(batch.names) = Cardinality(positions)
            /\ \A k \in 1..Len(batch.names) :
                  batch.names[k] =
                      dex.pokemon_entries[Kth(positions, k) + 1].pokemon_species.name
            /\ InInputOrder(batch.result)

\* the catalogued entity a request string denotes, by name or by decimal id
Denoted(name_or_id) ==
    {e \in Catalog : e.name = Lower(name_or_id) \/ DecStr(e.id) = Lower(name_or_id)}

\* C13: alias resolution is idempotent: the record hydrated from a name carries
\* the canonical id of the entity, and hydrating by that id yields a record
\* identical to it in every field.
C13_AliasIdempotent ==
    (batch.op = "single" /\ Answered /\ batch.status = 200) =>
        LET rec == batch.result[1]
        IN  /\ \E e \in Denoted(batch.req) : rec.id = e.id
            /\ RecordsFor(DecStr(rec.id)) = {rec}

\* a lookup by name, not by id, has been answered with the record of id 25
C13_Witness ==
    /\ batch.op = "single" /\ Answered /\ batch.status = 200
    /\ batch.req = s_Pikachu
    /\ batch.req # DecStr(batch.result[1].id)
    /\ batch.result[1].id = 25

\* the species GETs a request has put on the wire
SpeciesGetKeys ==
    {batch.gets[k].key : k \in {j \in 1..Len(batch.gets) :
                                   batch.gets[j].resource = "pokemon-species"}}

\* C14: whenever the core fetch of a hydration succeeded, a species fetch
\* keyed by the id of the core payload is issued (its successful answer then
\* sets is_legendary, is_mythical and the description of the record).
C14_SpeciesFetchedById ==
    \A i \in 1..Len(batch.tasks) :
        batch.tasks[i].tag = "record" =>
            DecStr(batch.tasks[i].rec.id) \in SpeciesGetKeys

\* the hydrations of the request whose core fetch returned a payload
CoreSucceeded == {i \in 1..Len(batch.tasks) : batch.tasks[i].tag \in {"record", "raised"}}

\* C15: a species fetch is issued only after the core fetch of the same
\* hydration returned a payload; a hydration whose core fetch yields Absent
\* returns Absent and issues no species fetch.
C15_SpeciesOnlyAfterCore ==
    /\ \A key \in SpeciesGetKeys :
          \E i \in CoreSucceeded : \E e \in Denoted(batch.names[i]) : key = DecStr(e.id)
    /\ Cardinality({k \in 1..Len(batch.gets) : batch.gets[k].resource = "pokemon-species"})
          <= Cardinality(CoreSucceeded)
    /\ \A i \in 1..Len(batch.tasks) :
          (batch.tasks[i] # Pending /\ Denoted(batch.names[i]) = {}) =>
              batch.tasks[i].tag = "none"

\* a hydration whose core fetch yielded Absent has returned Absent next to one
\* that returned a record, and no species GET is on the wire
C15_Witness ==
    /\ \E i \in 1..Len(batch.tasks) : batch.tasks[i].tag = "none"
    /\ \E i \in 1..Len(batch.tasks) : batch.tasks[i].tag = "record"
    /\ SpeciesGetKeys = {}

\* C16: whenever the core fetch succeeds and the species fetch yields Absent
\* (in this program: in every hydration whose core fetch succeeds), the
\* hydration returns a record, with is_legendary and is_mythical false, no
\* description, and every other field taken from the core payload.
C16_DegradedRecord ==
    \A i \in CoreSucceeded :
        LET t == batch.tasks[i]
        IN  /\ t.tag = "record"
            /\ ~t.rec.is_legendary /\ ~t.rec.is_mythical /\ t.rec.description = None
            /\ \E e \in Denoted(batch.names[i]) :
                  /\ t.rec.id = e.id /\ t.rec.name = e.name
                  /\ t.rec.height = e.height /\ t.rec.weight = e.weight
                  /\ t.rec.sprite_url = e.sprites.front_default.v
                  /\ t.rec.types = ExtractTypes(e)
                  /\ t.rec.abilities = ExtractAbilities(e)
                  /\ t.rec.stats = ExtractStats(e)

(***************************************************************************)
(* Claims about the fetchers, checked under SpecFetch.                     *)
(***************************************************************************)
\* C17: a fetcher call, core or species, always ends by returning a payload
\* or Absent and lets no fault escape: every answer other than a success, and
\* every fault raised on the way, is returned as Absent.
C17_FaultsBecomeAbsent ==
    call.resource # "" =>
        /\ DOMAIN call.result = (IF call.result.some THEN {"some", "v"} ELSE {"some"})
        /\ call.answer \in {"status", "fault", "unsent"} => ~call.result.some
        /\ call.answer = "ok" =>
              /\ call.result.some
              /\ call.result.v \in (IF call.resource = "pokemon"
                                    THEN Catalog ELSE SpeciesCatalog)
              /\ LET key == Lower(call.arg.s)
                 IN  key = call.result.v.name \/ key = DecStr(call.result.v.id)

\* a core fetch whose GET raised has returned Absent
C17_Witness ==
    /\ call.resource = "pokemon"
    /\ call.answer = "fault"
    /\ call.result = None

\* C18: a batch operation answers only after every hydration it launched has
\* completed: in no reachable state has the operation responded while one of
\* its hydrations is still pending.
C18_GatherBarrier ==
    (batch.op \in {"compare", "trainer", "region"} /\ Answered) =>
        \A i \in 1..Len(batch.tasks) : batch.tasks[i] # Pending

(***************************************************************************)
(* Claims about the isolation and atomicity of team requests, SpecTeam.    *)
(***************************************************************************)
\* C19: team operations are isolated per user: no step of an add, a remove or
\* a get for user u, succeeding or failing, however the requests interleave,
\* changes the team of another user v.
C19_OtherTeamsUntouched ==
    [][POKEMON_TEAMS' # POKEMON_TEAMS =>
          /\ \A u \in Users : ~get_team(u)
          /\ \A p \in TeamInputs :
                (\/ add_to_team_begin(p[1], p[2])
                 \/ add_to_team_resume(p[1], p[2])
                 \/ remove_from_team(p[1], p[2])) =>
                    \A v \in Users \ {p[1]} :
                       /\ (v \in DOMAIN POKEMON_TEAMS') = (v \in DOMAIN POKEMON_TEAMS)
                       /\ TeamOf(POKEMON_TEAMS', v) = TeamOf(POKEMON_TEAMS, v)]_vars

\* a remove for user u1 has succeeded while user u2 holds a member
C19_Witness ==
    /\ response.op = "remove" /\ response.status = 200 /\ response.user = "u1"
    /\ TeamOf(POKEMON_TEAMS, "u2") # << >>

\* C20: a remove runs its search and its removal in one step, so of two
\* removes of the same name against a team holding it once, whichever runs
\* first succeeds and shrinks the team by exactly one, and leaves no member
\* of that name for the other, which then fails not-found (C5).
C20_RemoveOnce ==
    [][\A p \in TeamInputs :
          LET team == TeamOf(POKEMON_TEAMS, p[1])
              after == TeamOf(POKEMON_TEAMS', p[1])
              lowered == Lower(p[2])
          IN  (/\ response'.op = "remove"
               /\ Cardinality({i \in 1..Len(team) : Lower(team[i].name) = lowered}) = 1
               /\ remove_from_team(p[1], p[2])) =>
                  /\ response'.status = 200
                  /\ Len(after) = Len(team) - 1
                  /\ \A i \in 1..Len(after) : Lower(after[i].name) # lowered
                  /\ FirstMatch(after, p[2]) = 0]_vars

\* a remove has succeeded on a team of several members, none of which now
\* has the removed name
C20_Witness ==
    /\ response.op = "remove" /\ response.status = 200
    /\ TeamOf(POKEMON_TEAMS, response.user) # << >>
    /\ ~HasMember(TeamOf(POKEMON_TEAMS, response.user), response.name)

====
